---------------------------- MODULE Spec2Model ----------------------------
(***************************************************************************)
(* SHPImporter (src/src/SHPImporter.ts): one call of SHPImporter.import,   *)
(* stepped at its suspension points.  Every awaited collaborator call      *)
(* (workspace listing and byte fetch, the shpjs parser, the host editor    *)
(* and layer store) is one action that either returns or throws.           *)
(*                                                                         *)
(* Strings that the code slices (item titles, group names) are sequences   *)
(* of one-character strings.  Numbers that may be fractional are a pair    *)
(* numerator n / denominator d.                                            *)
(***************************************************************************)
EXTENDS Integers, Sequences, FiniteSets, TLC

\* ------------------------------------------------------------------ bounds
\* Workspace items listed over the whole import (all propfind results).
MaxItems == 2
\* Longest coordinate list of a generated LineString / MultiPoint.
MaxCoords == 3
\* Most rings of a generated Polygon, most parts of a generated Multi*.
MaxRings == 2

\* ----------------------------------------------------------- string slices
Min(a, b) == IF a < b THEN a ELSE b
Max(a, b) == IF a > b THEN a ELSE b

\* String.prototype.substring(start, end): arguments below 0 are taken as 0,
\* above the length as the length; indices are 0-based, end exclusive.
Substring(s, start, end) ==
    LET a == Min(Max(start, 0), Len(s))
        b == Min(Max(end, 0), Len(s))
    IN  SubSeq(s, Min(a, b) + 1, Max(a, b))

ALLOWED_EXTENSIONS ==
    { <<"s","h","p">>, <<"d","b","f">>, <<"p","r","j">>,
      <<"c","p","g">>, <<"i","d","x">>, <<"s","h","x">> }

\* const name = title.substring(0, title.length - 4)
ItemName(title) == Substring(title, 0, Len(title) - 4)

\* const extension = title.substring(title.length - 3)
ItemExtension(title) == Substring(title, Len(title) - 3, Len(title))

\* ----------------------------------------------------------- workspace items
FOLDER == "application/vnd.folder"
OCTET  == "application/octet-stream"

File(title, bytes) == [title |-> title, mimeType |-> OCTET, bytes |-> bytes]

\* The items a listing may hold.  Every file has its own byte content.
ItemPool ==
    { File(<<"a",".","s","h","p">>, 1),
      File(<<"a",".","d","b","f">>, 2),
      File(<<"b",".","s","h","p">>, 3),
      File(<<"c",".","s","h","p">>, 4),
      File(<<"a",".","t","x","t">>, 5),
      File(<<"d",".","t","x","t">>, 6),
      File(<<"s","h","p">>, 8),
      [title |-> <<"n",".","p","n","g">>, mimeType |-> "image/png", bytes |-> 7],
      [title |-> <<"s","u","b">>, mimeType |-> FOLDER, bytes |-> 0] }

\* What propfind() may return when at most n items are left to list.
Listings(n) == UNION { [1..k -> ItemPool] : k \in 0..n }

\* ------------------------------------------------------------------ groups
\* groups: Record<string, ShapeGroup>, kept as the sequence of its entries in
\* insertion order (the order `for (const name in groups)` visits them).
GroupIndex(gs, name) ==
    IF \E k \in 1..Len(gs) : gs[k].name = name
    THEN CHOOSE k \in 1..Len(gs) : gs[k].name = name
    ELSE 0

EmptyGroup == [e \in {} |-> 0]

\* addToGroups after `await item.get()` has returned the bytes.
AddToGroups(gs, item) ==
    LET name == ItemName(item.title)
        extension == ItemExtension(item.title)
        k == GroupIndex(gs, name)
        \* let group = groups[name]; if (group === undefined) { groups[name] = {} }
        withEntry == IF k = 0
                     THEN Append(gs, [name |-> name, parts |-> EmptyGroup])
                     ELSE gs
        j == IF k = 0 THEN Len(withEntry) ELSE k
        old == withEntry[j].parts
    IN  IF extension \notin ALLOWED_EXTENSIONS
        THEN withEntry            \* console.error(...); return
        ELSE [withEntry EXCEPT ![j].parts =
                 [e \in DOMAIN old \cup {extension} |->
                     IF e = extension THEN item.bytes ELSE old[e]]]

\* -------------------------------------------------------- property values
\* PropertyValue = number | string | boolean | Date, plus anything else the
\* parser may hand over (t = "object": null, an array, ...).
Num(n, d)  == [t |-> "number",  n |-> n, d |-> d, s |-> <<>>]
Str(s)     == [t |-> "string",  n |-> 0, d |-> 1, s |-> s]
Bool(b)    == [t |-> "boolean", n |-> IF b THEN 1 ELSE 0, d |-> 1, s |-> <<>>]
DateOf(ms) == [t |-> "date",    n |-> ms, d |-> 1, s |-> <<>>]
Null       == [t |-> "object",  n |-> 0, d |-> 1, s |-> <<>>]

\* typeof prop
TypeOf(prop) == IF prop.t \in {"number", "string", "boolean"} THEN prop.t ELSE "object"

\* Number.isInteger(prop)
NumberIsInteger(prop) == prop.n % prop.d = 0

\* prop.toLocaleString() of a Date: a text of the instant, not the instant.
ToLocaleString(prop) ==
    IF prop.n = 0 THEN <<"1","/","1","/","1","9","7","0">>
    ELSE <<"1","/","2","/","1","9","7","0">>

\* A value stored in a layer record: form "object" is {$value, $type?, $units?},
\* form "raw" is a plain value, form "typeref" an item of drawing.types.
Typed(value, type, units) ==
    [form |-> "object", value |-> value, type |-> type, units |-> units]
Raw(value) == [form |-> "raw", value |-> value, type |-> "absent", units |-> "absent"]
TypeItem(id) == [form |-> "typeref", value |-> Str(id), type |-> "absent", units |-> "absent"]

\* Faulty variant: Number.isInteger is not consulted, every number is a 'float'.
featurePropValueAllFloat(prop) ==
    CASE TypeOf(prop) = "number"  -> Typed(prop, "float", "undefined")
      [] TypeOf(prop) = "string"  -> Typed(prop, "string", "absent")
      [] TypeOf(prop) = "boolean" -> Typed(prop, "bool", "absent")
      [] OTHER ->
            IF prop.t = "date"
            THEN Typed(Str(ToLocaleString(prop)), "string", "absent")
            ELSE Typed(prop, "absent", "absent")

featurePropValue(prop) ==
    CASE TypeOf(prop) = "number" ->
            Typed(prop, IF NumberIsInteger(prop) THEN "int" ELSE "float", "undefined")
      [] TypeOf(prop) = "string"  -> Typed(prop, "string", "absent")
      [] TypeOf(prop) = "boolean" -> Typed(prop, "bool", "absent")
      [] OTHER ->
            IF prop.t = "date"
            THEN Typed(Str(ToLocaleString(prop)), "string", "absent")
            ELSE Typed(prop, "absent", "absent")   \* console.error(...)

featureProps(rawProps) ==
    [name \in DOMAIN rawProps |-> featurePropValue(rawProps[name])]

SmdxElement == TypeItem(<<"S","m","d","x","E","l","e","m","e","n","t">>)

\* loadFeature, lines 229-231: the record handed to drawing.layers.add.
FeatureLayerData(feature) ==
    LET props == featureProps(feature.properties)
    IN  [k \in DOMAIN props \cup {"$type", "name"} |->
            IF k = "$type" THEN SmdxElement
            ELSE IF k = "name" THEN Raw(Str(<<>>))
            ELSE props[k]]

\* loadShapes, lines 245-248: the record of a group's top-level layer.
GroupLayerData(name) ==
    [k \in {"$type", "name"} |-> IF k = "$type" THEN SmdxElement ELSE Raw(Str(name))]

\* ---------------------------------------------------------------- geometry
SCALE == 1

coordinatesToVec3(coordinates) ==
    IF Len(coordinates) >= 3
    THEN <<coordinates[1], coordinates[2], coordinates[3]>>
    ELSE <<coordinates[1], coordinates[2], 0>>

scaleCoordinates(coordinates) ==
    [i \in 1..Len(coordinates) |-> coordinates[i] * SCALE]

ToVertex(p) == scaleCoordinates(coordinatesToVec3(p))

\* A call of the entity editor: op is the method, verts its points (the
\* centre of a circle, a and b of a line, the vertices of a polyline), radius
\* the circle's radius as <<numerator, denominator>>.
AddCircle(center) ==
    [op |-> "addCircle", verts |-> <<ToVertex(center)>>, radius |-> <<5, 1000>>]
AddLine(a, b) ==
    [op |-> "addLine", verts |-> <<ToVertex(a), ToVertex(b)>>, radius |-> <<0, 1>>]
AddPolyline3d(coordinates) ==
    [op |-> "addPolyline3d",
     verts |-> [i \in 1..Len(coordinates) |-> ToVertex(coordinates[i])],
     radius |-> <<0, 1>>]

\* Faulty variant: `coordinates.length >= 2` where the code has `=== 2`.
LinePrimitiveFirstTwo(coordinates) ==
    IF Len(coordinates) >= 2
    THEN AddLine(coordinates[1], coordinates[2])
    ELSE AddPolyline3d(coordinates)

\* The LineString branch, repeated per sub-line in the MultiLineString branch.
LinePrimitive(coordinates) ==
    IF Len(coordinates) = 2
    THEN AddLine(coordinates[1], coordinates[2])
    ELSE AddPolyline3d(coordinates)

RECURSIVE Flatten(_)
Flatten(seqs) ==
    IF Len(seqs) = 0 THEN <<>> ELSE Head(seqs) \o Flatten(Tail(seqs))

\* featureGeometry: the editor calls it makes for a geometry, in order.  Each
\* call is followed by entity.setx('$layer', layer) before the next one.
featureGeometry(rawGeometry) ==
    LET c == rawGeometry.coordinates
    IN  CASE rawGeometry.type = "Point" -> <<AddCircle(c)>>
          [] rawGeometry.type = "LineString" -> <<LinePrimitive(c)>>
          [] rawGeometry.type = "Polygon" ->
                [i \in 1..Len(c) |-> AddPolyline3d(c[i])]
          [] rawGeometry.type = "MultiPoint" ->
                [i \in 1..Len(c) |-> AddCircle(c[i])]
          [] rawGeometry.type = "MultiLineString" ->
                [i \in 1..Len(c) |-> LinePrimitive(c[i])]
          [] rawGeometry.type = "MultiPolygon" ->
                Flatten([i \in 1..Len(c) |->
                            [j \in 1..Len(c[i]) |-> AddPolyline3d(c[i][j])]])
          [] OTHER -> <<>>      \* console.error(`Unsupported geometry type`)

GeometrySupported(rawGeometry) ==
    rawGeometry.type \in {"Point", "LineString", "Polygon",
                          "MultiPoint", "MultiLineString", "MultiPolygon"}

\* ------------------------------------------------- what the parser returns
\* Coordinates alternate between vec3 and vec2 tuples.
Pt(i) == IF i % 2 = 0 THEN <<i, i + 1>> ELSE <<i, i + 1, i + 2>>
Path(n, from) == [i \in 1..n |-> Pt(from + i)]
\* Ring j of a polygon has j + 1 coordinates (the first ring has two).
Rings(r) == [j \in 1..r |-> Path(j + 1, 10 * j)]

Geometry(type, coordinates) == [type |-> type, coordinates |-> coordinates]

GeometryPool ==
    <<Geometry("Point", Pt(2)), Geometry("Point", Pt(3))>>
    \o [n \in 1..(MaxCoords + 1) |-> Geometry("LineString", Path(n - 1, 0))]
    \o [r \in 1..(MaxRings + 1) |-> Geometry("Polygon", Rings(r - 1))]
    \o [n \in 1..(MaxCoords + 1) |-> Geometry("MultiPoint", Path(n - 1, 4))]
    \o [k \in 1..(MaxRings + 1) |-> Geometry("MultiLineString", Rings(k - 1))]
    \o [k \in 1..(MaxRings + 1) |->
           Geometry("MultiPolygon", [i \in 1..(k - 1) |-> Rings(i)])]
    \o <<Geometry("GeometryCollection", <<>>)>>

PropsPool ==
    << [k \in {"area"} |-> Num(42, 1)],
       [k \in {"name", "h"} |-> IF k = "name" THEN Str(<<"x">>) ELSE Num(3, 2)],
       [k \in {"$type", "ok"} |-> IF k = "ok" THEN Bool(TRUE) ELSE Str(<<"t">>)],
       [k \in {"when", "gap"} |-> IF k = "when" THEN DateOf(0) ELSE Null],
       [k \in {} |-> Null] >>

FeatureOf(i) ==
    [type |-> "Feature",
     geometry |-> GeometryPool[i],
     properties |-> PropsPool[((i - 1) % Len(PropsPool)) + 1]]

\* An element of a collection that is no Feature.
NotAFeature ==
    [type |-> "Topology", geometry |-> Geometry("Point", Pt(2)),
     properties |-> [k \in {} |-> Null]]

FeatureCollection(features) == [type |-> "FeatureCollection", features |-> features]

BigCollection ==
    FeatureCollection(<<FeatureOf(1), NotAFeature>>
                      \o [i \in 1..(Len(GeometryPool) - 1) |-> FeatureOf(i + 1)])

SmallCollection == FeatureCollection(<<NotAFeature, FeatureOf(2)>>)

\* shp(group), when it returns: the parse of the group's .shp buffer.
ParserResult(group) ==
    LET bytes == group.parts[<<"s","h","p">>]
    IN  CASE bytes = 1 -> BigCollection
          [] bytes = 4 -> SmallCollection
          [] OTHER -> [type |-> "Feature", features |-> <<>>]

\* shp(group) throws on a group without a .shp buffer.
ParserAccepts(group) == <<"s","h","p">> \in DOMAIN group.parts

\* ------------------------------------------------------------------- state
VARIABLES
    pc,        \* where import() stands
    layout,    \* TRUE iff drawing.layouts?.model is defined
    progress,  \* context.beginProgress / endProgress calls and the indicator
    outputs,   \* the 'SHP' output channel: created, info() calls, error() arguments
    console,   \* the console.error diagnostics, in order
    thrown,    \* the failures collaborators raised, in order
    pending,   \* the exception propagating, "none" if none
    snapshot,  \* the drawing as it was when the first failure was raised
    rejected,  \* the exception import() itself rejected with, "none" if none
    budget,    \* items the workspace may still list
    calls,     \* propfind() and get() calls made, and the parser calls with their outcome
    stack,     \* extractGroups activations: the items of each and its index i
    groups,    \* the group map, in insertion order
    edit,      \* editor.beginEdit / endEdit calls that were made
    gi,        \* loadShapes: 1-based position in `for (const name in groups)`
    geojson,   \* loadShapes: the parser's result for the current group
    fi,        \* loadShapes: 1-based position in geojson.features
    requests,  \* featureGeometry: the editor calls of the current geometry
    ri,        \* featureGeometry: 1-based position in requests
    parent,    \* loadShapes: the current group's top-level layer (index in layers)
    layer,     \* loadFeature: the current feature's layer (index in layers)
    layers,    \* the drawing's layers created so far
    entities   \* the drawing's primitives created so far

vars == <<pc, layout, progress, outputs, console, thrown, pending, snapshot, rejected, budget,
          calls, stack, groups, edit, gi, geojson, fi, requests, ri, parent, layer,
          layers, entities>>

ctxVars  == <<progress, outputs, console, rejected>>
wsVars   == <<budget, stack, groups>>
loopVars == <<gi, geojson, fi, requests, ri, parent, layer>>
dwgVars  == <<layers, entities>>

Init ==
    /\ pc = "idle"
    /\ layout \in BOOLEAN
    /\ progress = [begun |-> 0, ended |-> 0, indeterminate |-> FALSE, details |-> ""]
    /\ outputs = [created |-> FALSE, info |-> 0, error |-> <<>>]
    /\ console = <<>>
    /\ thrown = <<>>
    /\ pending = "none"
    /\ snapshot = [taken |-> FALSE, layers |-> <<>>, entities |-> <<>>]
    /\ rejected = "none"
    /\ budget = MaxItems
    /\ calls = [propfind |-> 0, get |-> 0, shp |-> <<>>]
    /\ stack = <<>>
    /\ groups = <<>>
    /\ edit = [begin |-> 0, end |-> 0]
    /\ gi = 0
    /\ geojson = FeatureCollection(<<>>)
    /\ fi = 0
    /\ requests = <<>>
    /\ ri = 0
    /\ parent = 0
    /\ layer = 0
    /\ layers = <<>>
    /\ entities = <<>>

\* A collaborator call throws: the exception propagates to handler `to`.
Throw(site, to) ==
    /\ thrown' = Append(thrown, site)
    /\ pending' = site
    /\ snapshot' = IF snapshot.taken THEN snapshot
                   ELSE [taken |-> TRUE, layers |-> layers, entities |-> entities]
    /\ pc' = to

\* ------------------------------------------------------- import, lines 276-290
\* const progress = this.context.beginProgress();
Import ==
    /\ pc = "idle"
    /\ progress' = [progress EXCEPT !.begun = @ + 1]
    /\ pc' = "createOutputChannel"
    /\ UNCHANGED <<layout, outputs, console, thrown, pending, snapshot, rejected, calls, edit>>
    /\ UNCHANGED <<wsVars, loopVars, dwgVars>>

\* const outputs = this.context.createOutputChannel('SHP');  -- before the try
CreateOutputChannel ==
    /\ pc = "createOutputChannel"
    /\ \E ok \in BOOLEAN :
        IF ok
        THEN /\ outputs' = [outputs EXCEPT !.created = TRUE]
             /\ pc' = "try"
             /\ UNCHANGED <<thrown, rejected>>
        ELSE /\ thrown' = Append(thrown, "createOutputChannel")
             /\ rejected' = "createOutputChannel"
             /\ pc' = "rejected"
             /\ UNCHANGED outputs
    /\ UNCHANGED <<layout, progress, console, pending, snapshot, calls, edit>>
    /\ UNCHANGED <<wsVars, loopVars, dwgVars>>

\* Faulty variant: the `layout === undefined` test is missing.
EnterTryWithoutLayoutTest ==
    /\ pc = "try"
    /\ outputs' = [outputs EXCEPT !.info = @ + 1]
    /\ progress' = [progress EXCEPT !.indeterminate = TRUE, !.details = "reading"]
    /\ pc' = "propfind"
    /\ UNCHANGED <<layout, console, thrown, pending, snapshot, rejected, calls, edit>>
    /\ UNCHANGED <<wsVars, loopVars, dwgVars>>

\* outputs.info(...); progress.indeterminate = true; the layout test.
EnterTry ==
    /\ pc = "try"
    /\ outputs' = [outputs EXCEPT !.info = @ + 1]
    /\ IF ~layout
       THEN /\ progress' = [progress EXCEPT !.indeterminate = TRUE]
            /\ pc' = "finally"                       \* return
       ELSE /\ progress' = [progress EXCEPT !.indeterminate = TRUE,
                                            !.details = "reading"]
            /\ pc' = "propfind"
    /\ UNCHANGED <<layout, console, thrown, pending, snapshot, rejected, calls, edit>>
    /\ UNCHANGED <<wsVars, loopVars, dwgVars>>

\* const items = await workspace.root.propfind(); extractGroups(groups, items)
RootPropfind ==
    /\ pc = "propfind"
    /\ calls' = [calls EXCEPT !.propfind = @ + 1]
    /\ \/ \E items \in Listings(budget) :
            /\ stack' = <<[items |-> items, i |-> 0]>>
            /\ budget' = budget - Len(items)
            /\ pc' = "extractGroups"
            /\ UNCHANGED <<thrown, pending, snapshot>>
       \/ /\ Throw("propfind", "catch")
          /\ UNCHANGED <<stack, budget>>
    /\ UNCHANGED <<layout, groups, edit>>
    /\ UNCHANGED <<ctxVars, loopVars, dwgVars>>

\* --------------------------------------------------- extractGroups, lines 74-88
Top == stack[Len(stack)]
TopItem == Top.items[Top.i + 1]
InLoop == pc = "extractGroups" /\ Top.i < Len(Top.items)
Advance(st) == [st EXCEPT ![Len(st)].i = @ + 1]

\* case 'application/vnd.folder': await extractGroups(groups, await item.propfind())
ExtractFolder ==
    /\ InLoop
    /\ TopItem.mimeType = FOLDER
    /\ calls' = [calls EXCEPT !.propfind = @ + 1]
    /\ \/ \E items \in Listings(budget) :
            /\ stack' = Append(stack, [items |-> items, i |-> 0])
            /\ budget' = budget - Len(items)
            /\ UNCHANGED <<pc, thrown, pending, snapshot>>
       \/ /\ Throw("propfind", "catch")
          /\ UNCHANGED <<stack, budget>>
    /\ UNCHANGED <<layout, groups, edit>>
    /\ UNCHANGED <<ctxVars, loopVars, dwgVars>>

\* case 'application/octet-stream': await addToGroups(groups, item)
ExtractFile ==
    /\ InLoop
    /\ TopItem.mimeType = OCTET
    /\ calls' = [calls EXCEPT !.get = @ + 1]
    /\ \/ /\ groups' = AddToGroups(groups, TopItem)
          /\ console' = IF ItemExtension(TopItem.title) \in ALLOWED_EXTENSIONS
                        THEN console
                        ELSE Append(console, "Unsupported extension")
          /\ stack' = Advance(stack)
          /\ UNCHANGED <<pc, thrown, pending, snapshot>>
       \/ /\ Throw("get", "catch")
          /\ UNCHANGED <<groups, console, stack>>
    /\ UNCHANGED <<layout, progress, outputs, rejected, budget, edit>>
    /\ UNCHANGED <<loopVars, dwgVars>>

\* default: console.error(`Unsupported MIME type ...`)
ExtractOther ==
    /\ InLoop
    /\ TopItem.mimeType \notin {FOLDER, OCTET}
    /\ console' = Append(console, "Unsupported MIME type")
    /\ stack' = Advance(stack)
    /\ UNCHANGED <<pc, layout, progress, outputs, thrown, pending, snapshot, rejected, budget,
                   calls, groups, edit>>
    /\ UNCHANGED <<loopVars, dwgVars>>

\* The loop of one activation ends: back in the caller (break; ++i), or in
\* import at `const editor = layout.editor()`.
ExtractReturn ==
    /\ pc = "extractGroups"
    /\ Top.i >= Len(Top.items)
    /\ IF Len(stack) > 1
       THEN /\ stack' = Advance(SubSeq(stack, 1, Len(stack) - 1))
            /\ UNCHANGED pc
       ELSE /\ stack' = <<>>
            /\ pc' = "beginEdit"
    /\ UNCHANGED <<layout, thrown, pending, snapshot, budget, calls, groups, edit>>
    /\ UNCHANGED <<ctxVars, loopVars, dwgVars>>

\* -------------------------------------------------------- the drawing
\* Faulty variant: `layer.disabled = true` is missing.
AddLayerLeftEnabled(ls, data, g, f) ==
    Append(ls, [data |-> data, disabled |-> FALSE, ref |-> 0, g |-> g, f |-> f])

\* const layer = await drawing.layers.add(data); layer.disabled = true;
\* g and f record the group and collection element the layer was made for
\* (f = 0: the group's top-level layer).
AddLayer(ls, data, g, f) ==
    Append(ls, [data |-> data, disabled |-> TRUE, ref |-> 0, g |-> g, f |-> f])

\* const entity = await editor.addCircle / addLine / addPolyline3d(request)
AddEntity(es, request, g, f) ==
    Append(es, [op |-> request.op, verts |-> request.verts,
                radius |-> request.radius, ref |-> 0, g |-> g, f |-> f])

\* await handle.setx('$layer', target), on the k-th layer or entity
SetLayerRef(xs, k, target) == [xs EXCEPT ![k].ref = target]

\* ------------------------------------------------------- import, lines 291-292
\* const editor = layout.editor(); await editor.beginEdit();
BeginEdit ==
    /\ pc = "beginEdit"
    /\ \/ /\ edit' = [edit EXCEPT !.begin = @ + 1]
          /\ gi' = 1
          /\ pc' = "loadShapes"
          /\ UNCHANGED <<thrown, pending, snapshot>>
       \/ /\ Throw("beginEdit", "catch")
          /\ UNCHANGED <<edit, gi>>
    /\ UNCHANGED <<layout, calls, geojson, fi, requests, ri, parent, layer>>
    /\ UNCHANGED <<ctxVars, wsVars, dwgVars>>

\* ------------------------------------------------------ loadShapes, lines 238-271
\* Faulty variant: the default branch of `switch (geojson.type)` returns from
\* loadShapes instead of breaking to the next group.
ShpReturnsOnUnsupported ==
    /\ pc = "loadShapes"
    /\ gi <= Len(groups)
    /\ LET group == groups[gi] IN
       \/ /\ ParserAccepts(group)
          /\ LET result == ParserResult(group) IN
             /\ calls' = [calls EXCEPT !.shp =
                             Append(@, [name |-> group.name, type |-> result.type])]
             /\ geojson' = result
             /\ IF result.type = "FeatureCollection"
                THEN /\ pc' = "addParent"
                     /\ UNCHANGED <<gi, console>>
                ELSE /\ console' = Append(console, "Unsupported GeoJSON type")
                     /\ pc' = "endEdit"
                     /\ UNCHANGED gi
          /\ UNCHANGED <<thrown, pending, snapshot>>
       \/ /\ calls' = [calls EXCEPT !.shp =
                          Append(@, [name |-> group.name, type |-> "throws"])]
          /\ Throw("shp", "endEdit")
          /\ UNCHANGED <<geojson, gi, console>>
    /\ UNCHANGED <<layout, progress, outputs, rejected, edit, fi, requests, ri,
                   parent, layer>>
    /\ UNCHANGED <<wsVars, dwgVars>>

\* const geojson = await shp(group); switch (geojson.type)
Shp ==
    /\ pc = "loadShapes"
    /\ gi <= Len(groups)
    /\ LET group == groups[gi] IN
       \/ /\ ParserAccepts(group)
          /\ LET result == ParserResult(group) IN
             /\ calls' = [calls EXCEPT !.shp =
                             Append(@, [name |-> group.name, type |-> result.type])]
             /\ geojson' = result
             /\ IF result.type = "FeatureCollection"
                THEN /\ pc' = "addParent"
                     /\ UNCHANGED <<gi, console>>
                ELSE /\ console' = Append(console, "Unsupported GeoJSON type")
                     /\ gi' = gi + 1
                     /\ UNCHANGED pc
          /\ UNCHANGED <<thrown, pending, snapshot>>
       \/ /\ calls' = [calls EXCEPT !.shp =
                          Append(@, [name |-> group.name, type |-> "throws"])]
          /\ Throw("shp", "endEdit")
          /\ UNCHANGED <<geojson, gi, console>>
    /\ UNCHANGED <<layout, progress, outputs, rejected, edit, fi, requests, ri,
                   parent, layer>>
    /\ UNCHANGED <<wsVars, dwgVars>>

\* const parent = await drawing.layers.add({$type, name}); parent.disabled = true
AddParentLayer ==
    /\ pc = "addParent"
    /\ \/ /\ layers' = AddLayer(layers, GroupLayerData(groups[gi].name), gi, 0)
          /\ parent' = Len(layers) + 1
          /\ fi' = 1
          /\ pc' = "features"
          /\ UNCHANGED <<thrown, pending, snapshot>>
       \/ /\ Throw("layers.add", "endEdit")
          /\ UNCHANGED <<layers, parent, fi>>
    /\ UNCHANGED <<layout, calls, edit, gi, geojson, requests, ri, layer, entities>>
    /\ UNCHANGED <<ctxVars, wsVars>>

InFeatures == pc = "features" /\ fi <= Len(geojson.features)
Feature == geojson.features[fi]

\* case 'Feature': loadFeature up to the first editor call of featureGeometry
LoadFeature ==
    /\ InFeatures
    /\ Feature.type = "Feature"
    /\ \/ /\ layers' = AddLayer(layers, FeatureLayerData(Feature), gi, fi)
          /\ layer' = Len(layers) + 1
          /\ requests' = featureGeometry(Feature.geometry)
          /\ ri' = 1
          /\ console' = IF GeometrySupported(Feature.geometry)
                        THEN console
                        ELSE Append(console, "Unsupported geometry type")
          /\ pc' = "geometry"
          /\ UNCHANGED <<thrown, pending, snapshot>>
       \/ /\ Throw("layers.add", "endEdit")
          /\ UNCHANGED <<layers, layer, requests, ri, console>>
    /\ UNCHANGED <<layout, progress, outputs, rejected, calls, edit, gi, geojson, fi,
                   parent, entities>>
    /\ UNCHANGED wsVars

\* default: console.error(`Unsupported feature type ...`)
SkipFeature ==
    /\ InFeatures
    /\ Feature.type # "Feature"
    /\ console' = Append(console, "Unsupported feature type")
    /\ fi' = fi + 1
    /\ UNCHANGED <<pc, layout, progress, outputs, thrown, pending, snapshot, rejected, calls,
                   edit, gi, geojson, requests, ri, parent, layer>>
    /\ UNCHANGED <<wsVars, dwgVars>>

\* The features of the group are done: the next group.
NextGroup ==
    /\ pc = "features"
    /\ fi > Len(geojson.features)
    /\ gi' = gi + 1
    /\ pc' = "loadShapes"
    /\ UNCHANGED <<layout, thrown, pending, snapshot, calls, edit, geojson, fi, requests, ri,
                   parent, layer>>
    /\ UNCHANGED <<ctxVars, wsVars, dwgVars>>

\* --------------------------------------------------- featureGeometry, lines 140-226
\* const entity = await editor.add...(...)
CreateEntity ==
    /\ pc = "geometry"
    /\ ri <= Len(requests)
    /\ \/ /\ entities' = AddEntity(entities, requests[ri], gi, fi)
          /\ pc' = "setx"
          /\ UNCHANGED <<thrown, pending, snapshot>>
       \/ /\ Throw(requests[ri].op, "endEdit")
          /\ UNCHANGED entities
    /\ UNCHANGED <<layout, calls, edit, layers>>
    /\ UNCHANGED <<ctxVars, wsVars, loopVars>>

\* Faulty variant: the primitive is tagged with the group's layer, not the feature's.
TagEntityWithParent ==
    /\ pc = "setx"
    /\ \/ /\ entities' = SetLayerRef(entities, Len(entities), parent)
          /\ ri' = ri + 1
          /\ pc' = "geometry"
          /\ UNCHANGED <<thrown, pending, snapshot>>
       \/ /\ Throw("entity.setx", "endEdit")
          /\ UNCHANGED <<entities, ri>>
    /\ UNCHANGED <<layout, calls, edit, layers, gi, geojson, fi, requests, parent, layer>>
    /\ UNCHANGED <<ctxVars, wsVars>>

\* await entity.setx('$layer', layer)
TagEntity ==
    /\ pc = "setx"
    /\ \/ /\ entities' = SetLayerRef(entities, Len(entities), layer)
          /\ ri' = ri + 1
          /\ pc' = "geometry"
          /\ UNCHANGED <<thrown, pending, snapshot>>
       \/ /\ Throw("entity.setx", "endEdit")
          /\ UNCHANGED <<entities, ri>>
    /\ UNCHANGED <<layout, calls, edit, layers, gi, geojson, fi, requests, parent, layer>>
    /\ UNCHANGED <<ctxVars, wsVars>>

\* featureGeometry and loadFeature return the layer to loadShapes.
GeometryReturn ==
    /\ pc = "geometry"
    /\ ri > Len(requests)
    /\ pc' = "reparent"
    /\ UNCHANGED <<layout, thrown, pending, snapshot, calls, edit>>
    /\ UNCHANGED <<ctxVars, wsVars, loopVars, dwgVars>>

\* await layer.setx('$layer', parent); break; ++i
Reparent ==
    /\ pc = "reparent"
    /\ \/ /\ layers' = SetLayerRef(layers, layer, parent)
          /\ fi' = fi + 1
          /\ pc' = "features"
          /\ UNCHANGED <<thrown, pending, snapshot>>
       \/ /\ Throw("layer.setx", "endEdit")
          /\ UNCHANGED <<layers, fi>>
    /\ UNCHANGED <<layout, calls, edit, gi, geojson, requests, ri, parent, layer, entities>>
    /\ UNCHANGED <<ctxVars, wsVars>>

\* `for (const name in groups)` is exhausted: loadShapes returns.
LoadShapesReturn ==
    /\ pc = "loadShapes"
    /\ gi > Len(groups)
    /\ pc' = "endEdit"
    /\ UNCHANGED <<layout, thrown, pending, snapshot, calls, edit>>
    /\ UNCHANGED <<ctxVars, wsVars, loopVars, dwgVars>>

\* ------------------------------------------------------- import, lines 293-303
\* Faulty variant: endEdit follows loadShapes without a `finally`: a failure of
\* loadShapes skips it.
EndEditOnSuccessOnly ==
    /\ pc = "endEdit"
    /\ IF pending = "none"
       THEN /\ edit' = [edit EXCEPT !.end = @ + 1]
            /\ \/ /\ pc' = "finally"
                  /\ UNCHANGED <<thrown, pending, snapshot>>
               \/ Throw("endEdit", "catch")
       ELSE /\ pc' = "catch"
            /\ UNCHANGED <<edit, thrown, pending, snapshot>>
    /\ UNCHANGED <<layout, calls>>
    /\ UNCHANGED <<ctxVars, wsVars, loopVars, dwgVars>>

\* finally { await editor.endEdit(); }  An exception of endEdit replaces the
\* one that was propagating.
EndEdit ==
    /\ pc = "endEdit"
    /\ edit' = [edit EXCEPT !.end = @ + 1]
    /\ \/ /\ pc' = IF pending = "none" THEN "finally" ELSE "catch"
          /\ UNCHANGED <<thrown, pending, snapshot>>
       \/ Throw("endEdit", "catch")
    /\ UNCHANGED <<layout, calls>>
    /\ UNCHANGED <<ctxVars, wsVars, loopVars, dwgVars>>

\* catch (uncaughtException) { outputs.error(uncaughtException as Error); }
Catch ==
    /\ pc = "catch"
    /\ outputs' = [outputs EXCEPT !.error = Append(@, pending)]
    /\ pending' = "none"
    /\ pc' = "finally"
    /\ UNCHANGED <<layout, progress, console, thrown, snapshot, rejected, calls, edit>>
    /\ UNCHANGED <<wsVars, loopVars, dwgVars>>

\* finally { this.context.endProgress(progress); }
EndProgress ==
    /\ pc = "finally"
    /\ progress' = [progress EXCEPT !.ended = @ + 1]
    /\ pc' = "done"
    /\ UNCHANGED <<layout, outputs, console, thrown, pending, snapshot, rejected, calls, edit>>
    /\ UNCHANGED <<wsVars, loopVars, dwgVars>>

Next ==
    \/ Import
    \/ CreateOutputChannel
    \/ EnterTry
    \/ RootPropfind
    \/ ExtractFolder
    \/ ExtractFile
    \/ ExtractOther
    \/ ExtractReturn
    \/ BeginEdit
    \/ Shp
    \/ AddParentLayer
    \/ LoadFeature
    \/ SkipFeature
    \/ NextGroup
    \/ CreateEntity
    \/ TagEntity
    \/ GeometryReturn
    \/ Reparent
    \/ LoadShapesReturn
    \/ EndEdit
    \/ Catch
    \/ EndProgress

Spec == Init /\ [][Next]_vars

\* import() has returned or rejected.
Finished == pc \in {"done", "rejected"}

\* ================================================================== claims
Count(seq, x) == Cardinality({i \in DOMAIN seq : seq[i] = x})

\* The failures C2 speaks of: a byte fetch, a parser call, a host editor call.
\* (workspace listing and createOutputChannel are other collaborators.)
EditorSites ==
    {"beginEdit", "layers.add", "addCircle", "addLine", "addPolyline3d",
     "entity.setx", "layer.setx", "endEdit"}
ImportFailures == {"get", "shp"} \cup EditorSites

\* C1: the edit session is begun before any layer or primitive is created;
\* once beginEdit has succeeded, endEdit is called exactly once on every way
\* out of loadShapes (normal or failing); nothing is created after endEdit.
EditBracketsEveryMutation ==
    [][ /\ (layers' # layers \/ entities' # entities)
            => (edit.begin = 1 /\ edit.end = 0 /\ edit' = edit)
        /\ edit'.begin <= 1 /\ edit'.end <= edit'.begin
        /\ (edit'.begin = 1 /\ pc' \in {"catch", "finally", "done", "rejected"})
            => edit'.end = 1
        /\ (edit'.begin = 1 /\ pc' \notin {"endEdit", "catch", "finally", "done", "rejected"})
            => edit'.end = 0 ]_vars

\* C1 witness: loadShapes failed part-way with layers in the drawing, and the
\* session was ended once.
EditEndedAfterFailure ==
    /\ pc = "done"
    /\ edit = [begin |-> 1, end |-> 1]
    /\ Len(thrown) = 1 /\ thrown[1] \in {"shp", "addLine", "layer.setx"}
    /\ Len(layers) > 1

\* C2 (as stated): when a byte fetch, a parser call or a host editor call
\* fails, that failure is reported with outputs.error exactly once, nothing is
\* created afterwards, what was created before stays, and import does not
\* rethrow.
EveryFailureReportedOnce ==
    (Finished /\ \E i \in DOMAIN thrown : thrown[i] \in ImportFailures)
    => /\ \A i \in DOMAIN thrown :
            thrown[i] \in ImportFailures => Count(outputs.error, thrown[i]) = 1
       /\ layers = snapshot.layers
       /\ entities = snapshot.entities
       /\ rejected = "none"

\* The files of the pool that carry no recognised suffix.
UnrecognisedItems ==
    {it \in ItemPool : it.mimeType = OCTET
                       /\ ItemExtension(it.title) \notin ALLOWED_EXTENSIONS}

\* C3 (as stated): an item with an unrecognised suffix adds nothing to the
\* group map: none of its bytes, and no entry for its base name; an entry
\* exists only once a recognised item of that base name was stored.
UnrecognisedItemsLeaveNoGroup ==
    \A k \in DOMAIN groups :
        /\ DOMAIN groups[k].parts # {}
        /\ DOMAIN groups[k].parts \subseteq ALLOWED_EXTENSIONS
        /\ \A e \in DOMAIN groups[k].parts :
              \A it \in UnrecognisedItems : groups[k].parts[e] # it.bytes

\* C7: without a default layout import does nothing: no listing, no fetch, no
\* parser call, no edit session, no layer, no primitive, no error reported.
NoLayoutNoOp ==
    ~layout =>
        /\ calls = [propfind |-> 0, get |-> 0, shp |-> <<>>]
        /\ edit = [begin |-> 0, end |-> 0]
        /\ layers = <<>> /\ entities = <<>>
        /\ outputs.error = <<>>
        /\ pc \in {"idle", "createOutputChannel", "try", "finally", "done", "rejected"}

\* C7 witness: import returned from the layout test.
NoLayoutReturned == ~layout /\ pc = "done" /\ outputs.info = 1

\* C8 (as stated): a begun progress indicator is ended exactly once before
\* import completes, on every path, a failing createOutputChannel included.
ProgressAlwaysEnded ==
    Finished => (progress.begun = 1 /\ progress.ended = 1)

\* ----------------------------------------------------- the claims' own terms
\* The collection element a layer or primitive was made for.
ElementOf(x) == ParserResult(groups[x.g]).features[x.f]

IsChild(k) == layers[k].f > 0

\* The primitives made for the feature of child layer k, in creation order.
MadeFor(k) ==
    LET Mine(e) == e.g = layers[k].g /\ e.f = layers[k].f
    IN  SelectSeq(entities, Mine)

\* featureGeometry has returned for the feature of child layer k.
GeometryReturned(k) ==
    \/ k < layer
    \/ k = layer /\ pc # "setx" /\ ri > Len(requests)

\* The dispatch table of C4: a point as the editor receives it, and the
\* primitives due for a geometry, as <<kind, vertices>> in order.
AsVec3(p) == <<p[1], p[2], IF Len(p) > 2 THEN p[3] ELSE 0>>
Vertices(path) == [i \in 1..Len(path) |-> AsVec3(path[i])]
DueForLine(path) ==
    IF Len(path) = 2 THEN <<"addLine", Vertices(path)>>
    ELSE <<"addPolyline3d", Vertices(path)>>
RECURSIVE DueForRings(_, _)
DueForRings(polygons, i) ==
    IF i > Len(polygons) THEN <<>>
    ELSE [j \in 1..Len(polygons[i]) |-> <<"addPolyline3d", Vertices(polygons[i][j])>>]
         \o DueForRings(polygons, i + 1)
Due(geometry) ==
    LET c == geometry.coordinates
    IN  IF geometry.type = "Point" THEN << <<"addCircle", <<AsVec3(c)>> >> >>
        ELSE IF geometry.type = "MultiPoint"
             THEN [i \in 1..Len(c) |-> <<"addCircle", <<AsVec3(c[i])>> >>]
        ELSE IF geometry.type = "LineString" THEN <<DueForLine(c)>>
        ELSE IF geometry.type = "MultiLineString"
             THEN [i \in 1..Len(c) |-> DueForLine(c[i])]
        ELSE IF geometry.type = "Polygon" THEN DueForRings(<<c>>, 1)
        ELSE IF geometry.type = "MultiPolygon" THEN DueForRings(c, 1)
        ELSE <<>>

Made(k) == [i \in 1..Len(MadeFor(k)) |-> <<MadeFor(k)[i].op, MadeFor(k)[i].verts>>]

\* C4: once featureGeometry has returned for a feature, the primitives made
\* for it are exactly those of the dispatch table, one per part, in order:
\* a line for a 2-coordinate (sub-)line, a polyline of N vertices for N # 2,
\* a polyline per ring, a circle per point, nothing for another tag.
OnePrimitivePerPart ==
    \A k \in DOMAIN layers :
        (IsChild(k) /\ GeometryReturned(k)) => Made(k) = Due(ElementOf(layers[k]).geometry)

\* C4 witness: a whole collection was materialised without failure, with
\* lines, circles, polylines of 0, 1, 2 and 3 vertices, and an empty feature.
AllVariantsMaterialised ==
    /\ pc = "done" /\ thrown = <<>>
    /\ \E i \in DOMAIN entities : entities[i].op = "addLine"
    /\ \E i \in DOMAIN entities : entities[i].op = "addCircle"
    /\ \A n \in 0..3 : \E i \in DOMAIN entities :
          entities[i].op = "addPolyline3d" /\ Len(entities[i].verts) = n
    /\ \E k \in DOMAIN layers : IsChild(k) /\ Len(MadeFor(k)) = 0
    /\ \E k \in DOMAIN layers : IsChild(k) /\ Len(MadeFor(k)) > 2

\* The primitives whose '$layer' reference is not set.
Untagged == {i \in DOMAIN entities : entities[i].ref = 0}

\* C5: every primitive is tagged with the child layer of its own feature
\* before the next one is created: at most one primitive is untagged, it is
\* the last one created, and none is untagged after a run without failure.
TaggedBeforeNextPrimitive ==
    /\ Cardinality(Untagged) <= 1
    /\ Untagged \subseteq {Len(entities)}
    /\ (Untagged # {}) => (pc = "setx" \/ thrown # <<>>)
    /\ \A i \in DOMAIN entities \ Untagged :
          LET l == layers[entities[i].ref]
          IN  l.f > 0 /\ l.g = entities[i].g /\ l.f = entities[i].f

\* C5 witness: a feature's second primitive exists untagged, its first one
\* tagged.
SecondPrimitiveAwaitsTag ==
    /\ pc = "setx" /\ ri = 2
    /\ Untagged = {Len(entities)}
    /\ entities[Len(entities) - 1].ref = layer

\* The parser calls that returned something other than a FeatureCollection.
Skipped == {i \in DOMAIN calls.shp : calls.shp[i].type \notin {"FeatureCollection", "throws"}}

\* C6: a group whose parse is no FeatureCollection gets a diagnostic and no
\* layer or primitive; the groups after it are parsed and materialised.
UnsupportedGroupSkipped ==
    /\ \A i \in DOMAIN calls.shp : calls.shp[i].name = groups[i].name
    /\ Count(console, "Unsupported GeoJSON type") = Cardinality(Skipped)
    /\ \A i \in Skipped :
          /\ \A k \in DOMAIN layers : layers[k].g # i
          /\ \A k \in DOMAIN entities : entities[k].g # i
          /\ (pc = "loadShapes" /\ Len(calls.shp) = i) => gi = i + 1
          /\ (thrown = <<>> /\ pc \in {"endEdit", "finally", "done"})
                => /\ Len(calls.shp) = Len(groups)
                   /\ \A j \in (i + 1)..Len(groups) :
                         calls.shp[j].type = "FeatureCollection"
                            => \E k \in DOMAIN layers : layers[k].g = j

\* C6 witness: a skipped group came first and a later group was materialised.
GroupAfterSkippedMaterialised ==
    /\ pc = "done" /\ thrown = <<>>
    /\ 1 \in Skipped
    /\ \E k \in DOMAIN layers : layers[k].g = 2 /\ IsChild(k)

\* loadShapes has returned without a failure.
LoadShapesCompleted ==
    /\ edit.begin = 1
    /\ pc \in {"endEdit", "catch", "finally", "done"}
    /\ \A i \in DOMAIN thrown : thrown[i] = "endEdit"

LayersFor(g, f) == {k \in DOMAIN layers : layers[k].g = g /\ layers[k].f = f}

\* C9: after loadShapes completed without failure every FeatureCollection
\* group has exactly one top-level layer, named after the group, and exactly
\* one child layer per element of type 'Feature' (none for another element);
\* every layer is disabled; every child layer refers to its own group's
\* top-level layer, and it does so only once the feature's primitives exist.
LayersMirrorCollections ==
    /\ \A k \in DOMAIN layers :
          /\ layers[k].disabled
          /\ (IsChild(k) /\ layers[k].ref # 0) =>
                /\ layers[layers[k].ref].g = layers[k].g
                /\ layers[layers[k].ref].f = 0
                /\ Len(MadeFor(k)) = Len(Due(ElementOf(layers[k]).geometry))
                /\ \A i \in DOMAIN entities :
                      (entities[i].g = layers[k].g /\ entities[i].f = layers[k].f)
                         => entities[i].ref = k
    /\ LoadShapesCompleted =>
          /\ Len(calls.shp) = Len(groups)
          /\ \A k \in DOMAIN layers :
                /\ layers[k].g \in DOMAIN groups
                /\ calls.shp[layers[k].g].type = "FeatureCollection"
                /\ layers[k].f \in 0..Len(ParserResult(groups[layers[k].g]).features)
                /\ IsChild(k) => layers[k].ref # 0
                /\ ~IsChild(k) => layers[k].ref = 0
          /\ \A g \in DOMAIN groups :
                calls.shp[g].type = "FeatureCollection" =>
                   /\ Cardinality(LayersFor(g, 0)) = 1
                   /\ \A k \in LayersFor(g, 0) :
                         layers[k].data["name"] = Raw(Str(groups[g].name))
                   /\ \A f \in DOMAIN ParserResult(groups[g]).features :
                         Cardinality(LayersFor(g, f)) =
                            IF ParserResult(groups[g]).features[f].type = "Feature"
                            THEN 1 ELSE 0

\* C9 witness: two collections were materialised, one with an element that is
\* no Feature and one with a feature of unsupported geometry.
TwoCollectionsMaterialised ==
    /\ pc = "done" /\ thrown = <<>>
    /\ Len(calls.shp) = 2
    /\ \A g \in 1..2 : calls.shp[g].type = "FeatureCollection"
    /\ \E k \in DOMAIN layers :
          IsChild(k) /\ ~GeometrySupported(ElementOf(layers[k]).geometry)

\* The typed field C10 expects for a property value.
FieldOf(v) ==
    [form  |-> "object",
     value |-> IF v.t = "date" THEN Str(ToLocaleString(v)) ELSE v,
     type  |-> IF v.t = "number" THEN (IF v.n % v.d = 0 THEN "int" ELSE "float")
               ELSE IF v.t \in {"string", "date"} THEN "string"
               ELSE IF v.t = "boolean" THEN "bool"
               ELSE "absent",
     units |-> IF v.t = "number" THEN "undefined" ELSE "absent"]

\* C10 (as stated): the record of a feature's child layer holds, under every
\* key of the feature's properties, 'name' and '$type' included, the typed
\* field of that property.
EveryPropertyKept ==
    \A k \in DOMAIN layers :
        IsChild(k) =>
            \A key \in DOMAIN ElementOf(layers[k]).properties :
                /\ key \in DOMAIN layers[k].data
                /\ layers[k].data[key] = FieldOf(ElementOf(layers[k]).properties[key])

\* C10 (amended): the same for every key other than 'name' and '$type';
\* under 'name' the record holds the empty string and under '$type' the
\* SmdxElement type, whatever the feature's properties hold there.
EveryOtherPropertyKept ==
    \A k \in DOMAIN layers :
        IsChild(k) =>
            LET props == ElementOf(layers[k]).properties
                data == layers[k].data
            IN  /\ DOMAIN data = DOMAIN props \cup {"name", "$type"}
                /\ data["name"] = Raw(Str(<<>>))
                /\ data["$type"] = SmdxElement
                /\ \A key \in DOMAIN props \ {"name", "$type"} :
                      data[key] = FieldOf(props[key])

\* C10 witness: child layers exist for features with a 'name' property, a
\* '$type' property, and int, float, boolean and date properties.
TypedPropertiesCopied ==
    \A key \in {"name", "$type", "area", "h", "ok", "when"} :
        \E k \in DOMAIN layers :
            IsChild(k) /\ key \in DOMAIN ElementOf(layers[k]).properties

=============================================================================
